---------------------------- MODULE Spec2Model ----------------------------
(***************************************************************************)
(* Model of the two stateful subsystems of the nutrition backend:          *)
(*                                                                         *)
(*   - the anonymous-usage rate limiter                                    *)
(*       backend/app/middleware/rate_limit.py                              *)
(*   - the goal-achievement observer and its notification feed             *)
(*       backend/app/services/goal_observer.py                             *)
(*                                                                         *)
(* Time is the wall clock in whole seconds.  A call of a handler is one    *)
(* atomic step: no time passes inside a call.  The durable store (Redis)   *)
(* is a keyed table whose entries carry an absolute expiry time; a store   *)
(* operation that raises leaves the table untouched.                       *)
(***************************************************************************)
EXTENDS Integers, Sequences, FiniteSets, TLC

VARIABLES
    now,                  \* wall clock, seconds
    redis_client,         \* RateLimiter.redis_client is not None
    redis_init_attempted, \* hasattr(self, '_redis_init_attempted')
    usage_tracker,        \* RateLimiter.usage_tracker: dict ip -> usage
    redis_store,          \* the durable store: key rate_limit:<ip> -> [data, expire_at]
    redis_up,             \* environment: the store answers (TRUE) or raises (FALSE)
    last,                 \* the last call made on the limiter and what it returned
    hist,                 \* per ip: the check+increment cycles run since the ip had no record
    workers,              \* the worker processes that share the store: their
                          \* increment_usage in flight, and the increments performed
    passed,               \* per ip: the anonymous calls CountedGate let pass
                          \* since the clock last advanced
    notifications,        \* ToastNotificationObserver.notifications: dict user -> list
    achievement_cache,    \* GoalTracker.achievement_cache: the keys present
    goal_last,            \* the last call made on the goal tracker or the feed, and its result
    scanned_dishes,       \* table scanned_dishes: per user, the number of rows stored
    tasks                 \* the check_goals calls of the event loop that are
                          \* suspended at an await of notify_observers

rl_vars == <<redis_client, redis_init_attempted, usage_tracker,
             redis_store, redis_up, last, hist, workers, passed>>

goal_vars == <<notifications, achievement_cache, goal_last, scanned_dishes, tasks>>

vars == <<now, redis_client, redis_init_attempted, usage_tracker,
          redis_store, redis_up, last, hist, workers, passed,
          notifications, achievement_cache, goal_last, scanned_dishes, tasks>>

(***************************************************************************)
(* Bounds of the model                                                     *)
(***************************************************************************)
TickStep == 43200       \* the clock advances in steps of this many seconds
MaxTicks == 2           \* the clock stops after this many steps
MaxCount == 4           \* no increment is attempted on a count that reached this
MaxFeedDays == 3        \* the days that pass while a feed fills
MaxAgeDays == 9         \* the days that pass while notifications age
LastGoalDay == 1        \* the last day on which the ageing feed gets a notification
ReadGoalDays == 2       \* the days that pass while the feed that is marked read fills
MaxDishes == 2          \* the meals a user logs
MaxPasses == 4          \* no gate call is made for an ip that passed this often
MaxSeconds == 2         \* the seconds that pass while two processes use the store

(***************************************************************************)
(* Program constants                                                       *)
(***************************************************************************)
max_requests_anonymous == 3
WINDOW_HOURS == 24
REDIS_TTL == 86400
HTTP_200_OK == 200
HTTP_429_TOO_MANY_REQUESTS == 429
UNLIMITED == 0 - 1      \* "remaining": -1 indicates unlimited
NoneTime == 0 - 1       \* Python None where a datetime is expected

IPs == {"ip1", "ip2"}

\* timedelta(hours=h) in seconds
Hours(h) == h * 60 * 60

Max(a, b) == IF a >= b THEN a ELSE b

(***************************************************************************)
(* Encodings used by the durable backend                                   *)
(***************************************************************************)
\* datetime.isoformat() / datetime.fromisoformat()
IsoFormat(t) == <<"iso", t>>
FromIsoFormat(s) == s[2]
\* json.dumps / json.loads of the usage dict
JsonDumps(u) == <<"json", u>>
JsonLoads(d) == d[2]
\* reset_at.strftime("%Y-%m-%d %H:%M:%S") of the 429 payload
StrfTime(t) == <<"Y-m-d H:M:S", t>>

(***************************************************************************)
(* Python dicts: a function whose domain is the set of keys present        *)
(***************************************************************************)
EmptyDict == [k \in {} |-> 0]
Put(d, k, v) == [x \in (DOMAIN d) \cup {k} |-> IF x = k THEN v ELSE d[x]]

(***************************************************************************)
(* The durable store as the client sees it: GET, SETEX, TTL                *)
(***************************************************************************)
RedisKey(ip) == <<"rate_limit:", ip>>
RedisLive(rs, key, t) == key \in DOMAIN rs /\ t < rs[key].expire_at
RedisSetex(rs, key, ttl, value, t) == Put(rs, key, [data |-> value, expire_at |-> t + ttl])
RedisTtl(rs, key, t) == IF RedisLive(rs, key, t) THEN rs[key].expire_at - t ELSE 0 - 2

(***************************************************************************)
(* RateLimiter                                                             *)
(***************************************************************************)
\* the dict returned by check_limit
Result(allowed, remaining, reset_at) ==
    [allowed |-> allowed, remaining |-> remaining, reset_at |-> reset_at]

\* _init_redis: the client is kept when a URL is configured and the ping answers
InitRedis(client, redis_url, up) ==
    IF client THEN client
    ELSE IF redis_url THEN up
    ELSE FALSE

\* settings.redis_url: the default is a non-empty URL
REDIS_URL_SET == TRUE

\* get_client_ip.  A request carries the X-Forwarded-For header as the list of
\* its comma-separated elements (<<>>: no header; one empty element: the empty
\* string) and the peer address (<<>>: request.client is None).
Strip(e) == e.addr
HeaderTruthy(h) == h # <<>> /\ h # << [pad |-> FALSE, addr |-> ""] >>
get_client_ip(request) ==
    IF HeaderTruthy(request.forwarded) THEN Strip(request.forwarded[1])
    ELSE IF request.client # <<>> THEN request.client[1]
    ELSE "unknown"

\* _check_limit_memory
NewUsage(t) ==
    [count |-> 0, first_request |-> t, reset_at |-> t + Hours(WINDOW_HOURS)]
\* faulty variant of WindowElapsed: the window is still open at reset_at itself
WindowElapsed_strict(t, usage) == t > usage.reset_at

WindowElapsed(t, usage) == t >= usage.reset_at
\* faulty variant of LimitExceeded: the comparison off by one
LimitExceeded_off_by_one(count) == count > max_requests_anonymous

LimitExceeded(count) == count >= max_requests_anonymous

Verdict(count, reset_at) ==
    IF LimitExceeded(count)
    THEN Result(FALSE, 0, reset_at)
    ELSE Result(TRUE, max_requests_anonymous - count, reset_at)

\* faulty variant of CheckLimitMemory: the check consumes a request itself
CheckLimitMemory_counting(ut, ip, t) ==
    LET ut1   == IF ip \notin DOMAIN ut THEN Put(ut, ip, NewUsage(t)) ELSE ut
        usage == IF WindowElapsed(t, ut1[ip]) THEN NewUsage(t) ELSE ut1[ip]
        used  == [usage EXCEPT !.count = @ + 1]
    IN  [ut |-> Put(ut1, ip, used), res |-> Verdict(usage.count, usage.reset_at)]

\* _check_limit_memory
CheckLimitMemory(ut, ip, t) ==
    LET ut1   == IF ip \notin DOMAIN ut THEN Put(ut, ip, NewUsage(t)) ELSE ut
        usage == IF WindowElapsed(t, ut1[ip]) THEN NewUsage(t) ELSE ut1[ip]
    IN  [ut |-> Put(ut1, ip, usage), res |-> Verdict(usage.count, usage.reset_at)]

\* _check_limit_redis, the store answering
CheckLimitRedis(rs, ip, t) ==
    LET key   == RedisKey(ip)
        hit   == RedisLive(rs, key, t)
        fresh == [count |-> 0,
                  first_request |-> IsoFormat(t),
                  reset_at |-> IsoFormat(t + Hours(WINDOW_HOURS))]
        usage == IF hit THEN JsonLoads(rs[key].data) ELSE fresh
        rs1   == IF hit THEN rs ELSE RedisSetex(rs, key, REDIS_TTL, JsonDumps(fresh), t)
    IN  [rs |-> rs1, res |-> Verdict(usage.count, FromIsoFormat(usage.reset_at))]

\* The limiter's own state, passed through the calls
Limiter(client, attempted, ut, rs) ==
    [client |-> client, attempted |-> attempted, ut |-> ut, rs |-> rs]

\* faulty variant of check_limit: a store error closes the gate instead of
\* falling back to the in-memory table
check_limit_fail_closed(S, ip, is_authenticated, up, t) ==
    LET lazy   == ~S.client /\ ~S.attempted
        client == IF lazy THEN InitRedis(S.client, REDIS_URL_SET, up) ELSE S.client
        S1     == Limiter(client, S.attempted \/ lazy, S.ut, S.rs)
    IN  IF is_authenticated
        THEN [S |-> S1, res |-> Result(TRUE, UNLIMITED, NoneTime), backend |-> "none"]
        ELSE IF client /\ up
        THEN LET r == CheckLimitRedis(S1.rs, ip, t)
             IN  [S |-> Limiter(client, S1.attempted, S1.ut, r.rs),
                  res |-> r.res, backend |-> "redis"]
        ELSE IF client
        THEN [S |-> S1, res |-> Result(FALSE, 0, NoneTime), backend |-> "memory"]
        ELSE LET m == CheckLimitMemory(S1.ut, ip, t)
             IN  [S |-> Limiter(client, S1.attempted, m.ut, S1.rs),
                  res |-> m.res, backend |-> "memory"]

\* check_limit.  up: the store answers during this call.
check_limit(S, ip, is_authenticated, up, t) ==
    LET lazy   == ~S.client /\ ~S.attempted
        client == IF lazy THEN InitRedis(S.client, REDIS_URL_SET, up) ELSE S.client
        S1     == Limiter(client, S.attempted \/ lazy, S.ut, S.rs)
    IN  IF is_authenticated
        THEN [S |-> S1, res |-> Result(TRUE, UNLIMITED, NoneTime), backend |-> "none"]
        ELSE IF client /\ up
        THEN LET r == CheckLimitRedis(S1.rs, ip, t)
             IN  [S |-> Limiter(client, S1.attempted, S1.ut, r.rs),
                  res |-> r.res, backend |-> "redis"]
        ELSE LET m == CheckLimitMemory(S1.ut, ip, t)
             IN  [S |-> Limiter(client, S1.attempted, m.ut, S1.rs),
                  res |-> m.res, backend |-> "memory"]

\* _increment_usage_memory
IncrementUsageMemory(ut, ip) ==
    IF ip \in DOMAIN ut
    THEN Put(ut, ip, [ut[ip] EXCEPT !.count = @ + 1])
    ELSE ut

\* _increment_usage_redis, the store answering
IncrementUsageRedis(rs, ip, t) ==
    LET key == RedisKey(ip)
    IN  IF RedisLive(rs, key, t)
        THEN LET usage == [JsonLoads(rs[key].data) EXCEPT !.count = @ + 1]
                 ttl   == RedisTtl(rs, key, t)
             IN  IF ttl > 0 THEN RedisSetex(rs, key, ttl, JsonDumps(usage), t) ELSE rs
        ELSE rs

\* faulty variant of increment_usage: a store error is swallowed without the
\* fallback to the in-memory table
increment_usage_no_fallback(S, ip, up, t) ==
    IF S.client
    THEN [S |-> Limiter(S.client, S.attempted, S.ut,
                        IF up THEN IncrementUsageRedis(S.rs, ip, t) ELSE S.rs),
          backend |-> IF up THEN "redis" ELSE "memory"]
    ELSE [S |-> Limiter(S.client, S.attempted, IncrementUsageMemory(S.ut, ip), S.rs),
          backend |-> "memory"]

\* increment_usage
increment_usage(S, ip, up, t) ==
    IF S.client /\ up
    THEN [S |-> Limiter(S.client, S.attempted, S.ut, IncrementUsageRedis(S.rs, ip, t)),
          backend |-> "redis"]
    ELSE [S |-> Limiter(S.client, S.attempted, IncrementUsageMemory(S.ut, ip), S.rs),
          backend |-> "memory"]

\* the dict returned by get_usage
Usage(count, remaining, reset_at) ==
    [count |-> count, remaining |-> remaining, reset_at |-> reset_at]

\* _get_usage_memory
GetUsageMemory(ut, ip) ==
    IF ip \notin DOMAIN ut
    THEN Usage(0, max_requests_anonymous, NoneTime)
    ELSE Usage(ut[ip].count,
               Max(0, max_requests_anonymous - ut[ip].count),
               ut[ip].reset_at)

\* _get_usage_redis, the store answering
GetUsageRedis(rs, ip, t) ==
    LET key == RedisKey(ip)
    IN  IF ~RedisLive(rs, key, t)
        THEN Usage(0, max_requests_anonymous, NoneTime)
        ELSE LET usage == JsonLoads(rs[key].data)
             IN  Usage(usage.count,
                       Max(0, max_requests_anonymous - usage.count),
                       FromIsoFormat(usage.reset_at))

\* faulty variant of get_usage: the snapshot is taken through check_limit,
\* which creates and resets records
get_usage_through_check(S, ip, up, t) ==
    LET c == check_limit(S, ip, FALSE, up, t)
    IN  IF c.backend = "redis"
        THEN [S |-> c.S, res |-> GetUsageRedis(c.S.rs, ip, t), backend |-> "redis"]
        ELSE [S |-> c.S, res |-> GetUsageMemory(c.S.ut, ip), backend |-> "memory"]

\* get_usage: reads only, so it returns the snapshot and the limiter it leaves
get_usage(S, ip, up, t) ==
    IF S.client /\ up
    THEN [S |-> S, res |-> GetUsageRedis(S.rs, ip, t), backend |-> "redis"]
    ELSE [S |-> S, res |-> GetUsageMemory(S.ut, ip), backend |-> "memory"]

\* The HTTPException detail of a rejected call; NoDetail when none is raised
NoDetail == [limit |-> 0, reset_at |-> <<>>, requires_auth |-> FALSE]
TooManyRequests(res) ==
    [limit |-> max_requests_anonymous,
     reset_at |-> IF res.reset_at # NoneTime THEN StrfTime(res.reset_at) ELSE <<"unknown">>,
     requires_auth |-> TRUE]
\* faulty variant of ShouldIncrement: authenticated callers are counted too
ShouldIncrement_any_caller(allowed, is_authenticated) == allowed

\* faulty variant of ShouldIncrement: rejected calls are counted too
ShouldIncrement_before_verdict(allowed, is_authenticated) == ~is_authenticated

\* check_rate_limit runs increment_usage only past the raise of the rejected
\* call, and only for anonymous callers
ShouldIncrement(allowed, is_authenticated) == allowed /\ ~is_authenticated

\* check_rate_limit.  up1, up2: the store answers during check_limit, and
\* during increment_usage.
check_rate_limit(S, request, token, up1, up2, t) ==
    LET ip               == get_client_ip(request)
        is_authenticated == token # <<>>
        limit_check      == check_limit(S, ip, is_authenticated, up1, t)
        inc == IF ShouldIncrement(limit_check.res.allowed, is_authenticated)
               THEN increment_usage(limit_check.S, ip, up2, t)
               ELSE [S |-> limit_check.S, backend |-> "none"]
    IN  IF ~limit_check.res.allowed
        THEN [S |-> inc.S, status |-> HTTP_429_TOO_MANY_REQUESTS,
              detail |-> TooManyRequests(limit_check.res),
              res |-> limit_check.res, ip |-> ip, auth |-> is_authenticated,
              backend |-> limit_check.backend, backend2 |-> inc.backend]
        ELSE [S |-> inc.S, status |-> HTTP_200_OK, detail |-> NoDetail,
              res |-> limit_check.res, ip |-> ip, auth |-> is_authenticated,
              backend |-> limit_check.backend, backend2 |-> inc.backend]

\* get_rate_limit_status (GET /nutrition/rate-limit-status)
get_rate_limit_status(S, request, current_user, up, t) ==
    LET ip               == get_client_ip(request)
        is_authenticated == current_user # <<>>
    IN  IF is_authenticated
        THEN [ip |-> ip, auth |-> TRUE, backend |-> "none",
              res |-> Usage(0, UNLIMITED, NoneTime)]
        ELSE LET u == get_usage(S, ip, up, t)
             IN  [ip |-> ip, auth |-> FALSE, backend |-> u.backend, res |-> u.res]

(***************************************************************************)
(* The rate limiter as a state machine                                     *)
(***************************************************************************)
Cur == Limiter(redis_client, redis_init_attempted, usage_tracker, redis_store)

Install(S) ==
    /\ redis_client' = S.client
    /\ redis_init_attempted' = S.attempted
    /\ usage_tracker' = S.ut
    /\ redis_store' = S.rs

NoRes == Result(FALSE, 0, NoneTime)
\* the request field of a call that is not made through a request
NoRequest == [forwarded |-> <<>>, client |-> <<>>]

Call(op, ip, auth, backend, backend2, res, status, detail) ==
    [op |-> op, ip |-> ip, auth |-> auth, backend |-> backend, backend2 |-> backend2,
     res |-> res, status |-> status, detail |-> detail, request |-> NoRequest,
     \* the call before this one was the same call
     repeat |-> last.op = op /\ last.ip = ip /\ last.auth = auth]

\* hist[ip]: how many check+increment cycles the ip has run since it had no
\* usage record, and on which backend; "void" once a window of the ip has
\* expired or two of its calls were served by different backends.
Fresh == [cycles |-> 0, backend |-> "none"]
Void == [cycles |-> 0, backend |-> "void"]
HistAfterCheck(h, b) ==
    IF h.backend \in {"none", b} THEN [h EXCEPT !.backend = b] ELSE Void
HistAfterIncrement(h, b) ==
    IF h.backend = b THEN [h EXCEPT !.cycles = @ + 1] ELSE Void

\* some record of the ip, in memory or in the store, has reached its end at time t
Expired(ip, t) ==
    \/ ip \in DOMAIN usage_tracker /\ t >= usage_tracker[ip].reset_at
    \/ RedisKey(ip) \in DOMAIN redis_store /\ t >= redis_store[RedisKey(ip)].expire_at

\* the counts of a limiter state stay within the model's bound
CountsWithin(S) ==
    /\ \A ip \in DOMAIN S.ut : S.ut[ip].count <= MaxCount
    /\ \A key \in DOMAIN S.rs : JsonLoads(S.rs[key].data).count <= MaxCount

Element(a) == [pad |-> FALSE, addr |-> a]
Padded(a) == [pad |-> TRUE, addr |-> a]
Requests ==
    { [forwarded |-> <<Element("ip1"), Padded("ip2")>>, client |-> <<"ip2">>],
      [forwarded |-> <<>>, client |-> <<"ip2">>] }
Tokens == { <<>>, <<"jwt">> }
FaultIP == "ip1"
FaultRequest == [forwarded |-> <<Element("ip1"), Padded("ip2")>>, client |-> <<"ip2">>]

\* the X-Forwarded-For values and peers a request can carry: no header, an
\* empty or blank value, one address, several, and a list whose first element
\* is empty or blank; with and without request.client
ForwardedValues ==
    { <<>>, <<Element("")>>, <<Padded("")>>,
      <<Element("ip1")>>, <<Padded("ip1")>>, <<Element("ip1"), Padded("ip2")>>,
      <<Element(""), Element("ip1")>>, <<Padded(""), Padded("ip1")>> }
ClientRequests ==
    { [forwarded |-> f, client |-> c] : f \in ForwardedValues, c \in {<<>>, <<"ip2">>} }

\* The worker processes of a deployment share the durable store.  Inside one
\* process the gate runs without suspension; between processes the commands
\* that check_limit and _increment_usage_redis send to the store interleave,
\* and time passes between two commands.
Processes == {"w1", "w2"}
\* the coroutines of one event loop that run check_goals
Tasks == {"t1", "t2"}
Idle == [pc |-> "idle"]
\* lines 174-179: get, json.loads, count += 1
IncrementRead(rs, ip, t) ==
    IF RedisLive(rs, RedisKey(ip), t)
    THEN [pc |-> "read", ip |-> ip,
          usage |-> [JsonLoads(rs[RedisKey(ip)].data) EXCEPT !.count = @ + 1]]
    ELSE Idle
\* line 181: ttl
IncrementTtl(rs, ip, t) == RedisTtl(rs, RedisKey(ip), t)
\* lines 182-183: setex with the ttl that was read
IncrementWrite(rs, ip, usage, ttl, t) ==
    IF ttl > 0 THEN RedisSetex(rs, RedisKey(ip), ttl, JsonDumps(usage), t) ELSE rs

\* a worker runs check_limit(ip, False) of the gate for an anonymous request;
\* the request goes on to increment_usage when it is allowed
WorkerChecks(p, ip) ==
    LET c == check_limit(Cur, ip, FALSE, redis_up, now)
    IN  /\ workers.at[p].pc = "idle"
        /\ Install(c.S)
        /\ last' = Call("check_limit", ip, FALSE, c.backend, "none", c.res, 0, NoDetail)
        /\ hist' = [hist EXCEPT ![ip] = HistAfterCheck(@, c.backend)]
        /\ workers' = [workers EXCEPT !.at[p] =
                         IF c.res.allowed THEN [pc |-> "checked", ip |-> ip] ELSE Idle]
        /\ UNCHANGED <<now, redis_up, passed>>
        /\ UNCHANGED goal_vars

\* the worker starts _increment_usage_redis(ip): get
WorkerReads(p) ==
    LET w == IncrementRead(redis_store, workers.at[p].ip, now)
    IN  /\ workers.at[p].pc = "checked"
        /\ w.pc = "read" => w.usage.count <= MaxCount
        /\ workers' = [workers EXCEPT !.at[p] = w]
        /\ UNCHANGED <<now, redis_client, redis_init_attempted, usage_tracker,
                       redis_store, redis_up, last, hist>>
        /\ UNCHANGED <<goal_vars, passed>>

\* the worker asks for the remaining time to live of the key
WorkerAsksTtl(p) ==
    LET w == workers.at[p]
    IN  /\ w.pc = "read"
        /\ workers' = [workers EXCEPT !.at[p] =
                         [pc |-> "ttl", ip |-> w.ip, usage |-> w.usage,
                          ttl |-> IncrementTtl(redis_store, w.ip, now)]]
        /\ UNCHANGED <<now, redis_client, redis_init_attempted, usage_tracker,
                       redis_store, redis_up, last, hist>>
        /\ UNCHANGED <<goal_vars, passed>>

\* the worker writes the record back and completes the call
WorkerWrites(p) ==
    LET w == workers.at[p]
    IN  /\ w.pc = "ttl"
        /\ redis_store' = IncrementWrite(redis_store, w.ip, w.usage, w.ttl, now)
        /\ workers' = [workers EXCEPT !.at[p] = Idle,
                                      !.performed[w.ip] = IF w.ttl > 0 THEN @ + 1 ELSE @]
        /\ UNCHANGED <<now, redis_client, redis_init_attempted, usage_tracker,
                       redis_up, last, hist>>
        /\ UNCHANGED <<goal_vars, passed>>

\* the limiter as RateLimiter.__init__ leaves it
\* One check_limit call of a process whose store operation is in flight.  The
\* client connects with socket_connect_timeout=5 and is given no
\* socket_timeout: a connection attempt that gets no answer raises after the
\* timeout, a command sent on an established connection waits for its reply
\* without limit.  store: what the store does with the attempt or command.
StoreBehaviours == {"answers", "raises", "stalls"}
StoreCallBegins(p, ip, phase, store) ==
    /\ workers.at[p].pc = "idle"
    /\ redis_client \/ ~redis_init_attempted
    /\ workers' = [workers EXCEPT !.at[p] = [pc |-> phase, ip |-> ip, store |-> store]]
    /\ UNCHANGED <<now, redis_client, redis_init_attempted, usage_tracker,
                   redis_store, redis_up, last, hist, passed>>
    /\ UNCHANGED goal_vars

\* the connection is established and the command is sent
Connected(p, store) ==
    /\ workers.at[p].pc = "connect" /\ workers.at[p].store = "answers"
    /\ workers' = [workers EXCEPT !.at[p] = [@ EXCEPT !.pc = "operation", !.store = store]]
    /\ UNCHANGED <<now, redis_client, redis_init_attempted, usage_tracker,
                   redis_store, redis_up, last, hist, passed>>
    /\ UNCHANGED goal_vars

\* the call returns: on the reply of the store, or on the exception of a
\* refused or timed-out connection or a failed command, through the fallback
StoreCallEnds(p) ==
    LET w  == workers.at[p]
        up == w.store = "answers"
        c  == check_limit(Cur, w.ip, FALSE, up, now)
    IN  /\ \/ w.pc = "operation" /\ w.store \in {"answers", "raises"}
           \/ w.pc = "connect" /\ w.store \in {"raises", "stalls"}
        /\ Install(c.S)
        /\ last' = Call("check_limit", w.ip, FALSE, c.backend, "none", c.res, 0, NoDetail)
        /\ hist' = [hist EXCEPT ![w.ip] = HistAfterCheck(@, c.backend)]
        /\ workers' = [workers EXCEPT !.at[p] = Idle]
        /\ UNCHANGED <<now, redis_up, passed>>
        /\ UNCHANGED goal_vars

LimiterStart ==
    /\ redis_client = FALSE
    /\ redis_init_attempted = FALSE
    /\ usage_tracker = EmptyDict
    /\ redis_store = EmptyDict
    /\ last = [op |-> "start", ip |-> "", auth |-> FALSE, backend |-> "none",
               backend2 |-> "none", res |-> NoRes, status |-> 0, detail |-> NoDetail,
               request |-> NoRequest, repeat |-> FALSE]
    /\ hist = [ip \in IPs |-> Fresh]
    /\ workers = [at |-> [p \in Processes |-> Idle], performed |-> [ip \in IPs |-> 0]]
    /\ passed = [ip \in IPs |-> 0]

\* the tracker and the feed as get_goal_tracker leaves them
GoalStart ==
    /\ notifications = EmptyDict
    /\ achievement_cache = {}
    /\ goal_last = [op |-> "start", user |-> "", args |-> <<>>, returned |-> <<>>,
                    dispatched |-> <<>>, notified |-> <<>>, raised |-> FALSE,
                    status |-> 0, repeat |-> FALSE]
    /\ scanned_dishes = EmptyDict
    /\ tasks = [t \in Tasks |-> Idle]

RLInit ==
    /\ now = 0
    /\ LimiterStart
    /\ redis_up \in BOOLEAN
    /\ GoalStart

\* the clock advances
Tick ==
    /\ now + TickStep <= MaxTicks * TickStep
    /\ now' = now + TickStep
    /\ hist' = [ip \in IPs |-> IF Expired(ip, now') THEN Void ELSE hist[ip]]
    /\ last' = Call("tick", "", FALSE, "none", "none", NoRes, 0, NoDetail)
    /\ UNCHANGED <<redis_client, redis_init_attempted, usage_tracker, redis_store, redis_up>>
    /\ passed' = [ip \in IPs |-> 0]
    /\ UNCHANGED <<goal_vars, workers>>

\* the durable store becomes unreachable: every operation raises
RedisDown ==
    /\ redis_up
    /\ redis_up' = FALSE
    /\ last' = Call("env", "", FALSE, "none", "none", NoRes, 0, NoDetail)
    /\ UNCHANGED <<now, redis_client, redis_init_attempted, usage_tracker, redis_store, hist>>
    /\ UNCHANGED <<goal_vars, workers, passed>>

\* the durable store answers again
RedisUp ==
    /\ ~redis_up
    /\ redis_up' = TRUE
    /\ last' = Call("env", "", FALSE, "none", "none", NoRes, 0, NoDetail)
    /\ UNCHANGED <<now, redis_client, redis_init_attempted, usage_tracker, redis_store, hist>>
    /\ UNCHANGED <<goal_vars, workers, passed>>

\* rate_limiter.check_limit(ip, is_authenticated)
CheckLimit(ip, is_authenticated) ==
    LET c == check_limit(Cur, ip, is_authenticated, redis_up, now)
    IN  /\ Install(c.S)
        /\ last' = Call("check_limit", ip, is_authenticated, c.backend, "none",
                        c.res, 0, NoDetail)
        /\ hist' = IF is_authenticated THEN hist
                   ELSE [hist EXCEPT ![ip] = HistAfterCheck(@, c.backend)]
        /\ UNCHANGED <<now, redis_up>>
        /\ UNCHANGED <<goal_vars, workers, passed>>

\* rate_limiter.increment_usage(ip): only called after check_limit allowed
\* the anonymous caller
IncrementUsage(ip) ==
    LET i == increment_usage(Cur, ip, redis_up, now)
    IN  /\ last.op = "check_limit" /\ last.ip = ip /\ ~last.auth /\ last.res.allowed
        /\ CountsWithin(i.S)
        /\ Install(i.S)
        /\ last' = Call("increment_usage", ip, FALSE, i.backend, "none",
                        NoRes, 0, NoDetail)
        /\ hist' = [hist EXCEPT ![ip] = HistAfterIncrement(@, i.backend)]
        /\ UNCHANGED <<now, redis_up>>
        /\ UNCHANGED <<goal_vars, workers, passed>>

\* rate_limiter.get_usage(ip)
GetUsage(ip) ==
    LET u == get_usage(Cur, ip, redis_up, now)
    IN  /\ Install(u.S)
        /\ last' = Call("get_usage", ip, FALSE, u.backend, "none", u.res, 0, NoDetail)
        /\ UNCHANGED <<now, redis_up, hist>>
        /\ UNCHANGED <<goal_vars, workers, passed>>

\* GET /nutrition/rate-limit-status
RateLimitStatus(request, current_user) ==
    LET r == get_rate_limit_status(Cur, request, current_user, redis_up, now)
    IN  /\ last' = [Call("rate_limit_status", r.ip, r.auth, r.backend, "none",
                         r.res, HTTP_200_OK, NoDetail) EXCEPT !.request = request]
        /\ UNCHANGED <<now, redis_client, redis_init_attempted, usage_tracker,
                       redis_store, redis_up, hist>>
        /\ UNCHANGED <<goal_vars, workers, passed>>

\* the gate check_rate_limit(request, token); up2: whether the store answers
\* by the time increment_usage runs
GateCall(request, token, up2) ==
    LET g == check_rate_limit(Cur, request, token, redis_up, up2, now)
        h1 == IF g.backend = "none" THEN hist[g.ip]
              ELSE HistAfterCheck(hist[g.ip], g.backend)
        h2 == IF g.backend2 = "none" THEN h1 ELSE HistAfterIncrement(h1, g.backend2)
    IN  /\ g.backend2 = "none" => up2 = redis_up
        /\ CountsWithin(g.S)
        /\ Install(g.S)
        /\ redis_up' = up2
        /\ last' = [Call("check_rate_limit", g.ip, g.auth, g.backend, g.backend2,
                         g.res, g.status, g.detail) EXCEPT !.request = request]
        /\ hist' = [hist EXCEPT ![g.ip] = h2]
        /\ UNCHANGED now
        /\ UNCHANGED <<goal_vars, workers>>

Gate(request, token, up2) ==
    /\ GateCall(request, token, up2)
    /\ UNCHANGED passed

\* the gate, with the calls that passed counted
CountedGate(request, token, up2) ==
    /\ GateCall(request, token, up2)
    /\ passed' = [passed EXCEPT ![last'.ip] =
                     IF last'.status = HTTP_200_OK /\ ~last'.auth THEN @ + 1 ELSE @]
    /\ passed'[last'.ip] <= MaxPasses

\* The limiter of one deployment: the store either answers throughout or was
\* unreachable from the start (the limiter then runs on the in-memory table).
RLNext ==
    \/ Tick
    \/ \E ip \in IPs, a \in BOOLEAN : CheckLimit(ip, a)
    \/ \E ip \in IPs : IncrementUsage(ip)
    \/ \E ip \in IPs : GetUsage(ip)
    \/ \E r \in Requests, u \in Tokens : RateLimitStatus(r, u)
    \/ \E r \in Requests, k \in Tokens : Gate(r, k, redis_up)

\* The limiter of one client address with a store that fails and recovers at
\* any moment, also between the check and the increment of one gate call.
FaultNext ==
    \/ Tick
    \/ RedisDown
    \/ RedisUp
    \/ \E a \in BOOLEAN : CheckLimit(FaultIP, a)
    \/ IncrementUsage(FaultIP)
    \/ GetUsage(FaultIP)
    \/ \E u \in Tokens : RateLimitStatus(FaultRequest, u)
    \/ \E k \in Tokens, up2 \in BOOLEAN : Gate(FaultRequest, k, up2)

\* a second passes
SecondPasses ==
    /\ now < MaxSeconds
    /\ now' = now + 1
    /\ hist' = [ip \in IPs |-> IF Expired(ip, now') THEN Void ELSE hist[ip]]
    /\ last' = Call("tick", "", FALSE, "none", "none", NoRes, 0, NoDetail)
    /\ passed' = [ip \in IPs |-> 0]
    /\ UNCHANGED <<redis_client, redis_init_attempted, usage_tracker, redis_store, redis_up>>
    /\ UNCHANGED <<goal_vars, workers>>

\* Two worker processes on a store that answers: each passes requests of one
\* ip through the gate, check_limit first and then the commands of
\* increment_usage, while the other does the same and seconds pass.
RaceNext ==
    \/ SecondPasses
    \/ \E p \in Processes : WorkerChecks(p, FaultIP)
    \/ \E p \in Processes : WorkerReads(p)
    \/ \E p \in Processes : WorkerAsksTtl(p)
    \/ \E p \in Processes : WorkerWrites(p)

RaceInit == now = 0 /\ LimiterStart /\ redis_up = TRUE /\ GoalStart

SpecRace == RaceInit /\ [][RaceNext]_vars

\* Requests with every shape of forwarded-for header, resolved by the
\* rate-limit-status endpoint.
ClientNext ==
    \/ Tick
    \/ \E r \in ClientRequests, u \in Tokens : RateLimitStatus(r, u)

SpecClient == RLInit /\ [][ClientNext]_vars

\* The gate of one client address through one process, with a store that
\* fails and recovers at any moment, also between the check and the increment
\* of one call; the calls that pass are counted.
MixedNext ==
    \/ Tick
    \/ RedisDown
    \/ RedisUp
    \/ \E k \in Tokens, up2 \in BOOLEAN : CountedGate(FaultRequest, k, up2)

SpecMixed == RLInit /\ [][MixedNext]_vars

\* Two processes whose check_limit calls reach a store that answers, raises
\* or stalls, at the connection or at the command.  Replies, exceptions and
\* timeouts that are due do arrive.
StallNext ==
    \/ \E p \in Processes, ip \in IPs, phase \in {"connect", "operation"},
          store \in StoreBehaviours : StoreCallBegins(p, ip, phase, store)
    \/ \E p \in Processes, store \in StoreBehaviours : Connected(p, store)
    \/ \E p \in Processes : StoreCallEnds(p)

SpecStall ==
    /\ RaceInit /\ [][StallNext]_vars
    /\ \A p \in Processes : WF_vars(StoreCallEnds(p))
    /\ \A p \in Processes : WF_vars(Connected(p, "answers"))

SpecRL == RLInit /\ [][RLNext]_vars

SpecRLFault == RLInit /\ [][FaultNext]_vars

(***************************************************************************)
(* Goal observer: pure parts                                               *)
(*                                                                         *)
(* Nutrition totals are counted in tenths of their unit and percentages in *)
(* tenths of a percent, so that round(x, 1) is exact.  A date is the       *)
(* number of the day: date.today() is now div 86400.                       *)
(***************************************************************************)
Min(a, b) == IF a <= b THEN a ELSE b

Today(t) == t \div Hours(24)
\* date.isoformat(), and datetime.fromisoformat of it: midnight of that day
DateIso(d) == <<"date", d>>
DateTimeFromIso(s) == s[2] * Hours(24)

\* round half to even of n / d, for d > 0
RoundHalfEven(n, d) ==
    LET q == n \div d
        r == n % d
    IN  IF 2 * r < d THEN q
        ELSE IF 2 * r > d THEN q + 1
        ELSE IF q % 2 = 0 THEN q ELSE q + 1

\* round((actual_value / goal_value) * 100, 1), in tenths of a percent
Percentage(actual10, goal_value) == RoundHalfEven(actual10 * 100, goal_value)

\* goal_types of check_goals, in the order of the dict
GoalTypes == <<"calories", "protein", "carbs", "fat">>
StatKey(g) ==
    CASE g = "calories" -> "total_calories"
      [] g = "protein"  -> "total_protein_g"
      [] g = "carbs"    -> "total_carbs_g"
      [] g = "fat"      -> "total_fat_g"
GoalKey(g) ==
    CASE g = "calories" -> "daily_calorie_goal"
      [] g = "protein"  -> "daily_protein_goal"
      [] g = "carbs"    -> "daily_carbs_goal"
      [] g = "fat"      -> "daily_fat_goal"
\* dict.get(key, 0)
GetOr0(d, k) == IF k \in DOMAIN d THEN d[k] ELSE 0

\* cache_key, f"{cache_key}_90", f"{cache_key}_80"
CacheKey(user, g, d, suffix) == <<user, g, d, suffix>>

\* faulty variant of TierReached: the bands of the lower tiers have no upper end
TierReached_open(pct, suffix) ==
    CASE suffix = ""    -> pct >= 1000
      [] suffix = "_90" -> 900 <= pct
      [] suffix = "_80" -> 800 <= pct

\* the branch of the if / elif chain of check_goals that is taken
TierReached(pct, suffix) ==
    CASE suffix = ""    -> pct >= 1000
      [] suffix = "_90" -> 900 <= pct /\ pct < 1000
      [] suffix = "_80" -> 800 <= pct /\ pct < 900
\* faulty variant of Branch: the achievement cache is not consulted
Branch_uncached(cache, user, g, d, pct) ==
    IF TierReached(pct, "") THEN ""
    ELSE IF TierReached(pct, "_90") THEN "_90"
    ELSE IF TierReached(pct, "_80") THEN "_80"
    ELSE "skip"
Branch(cache, user, g, d, pct) ==
    IF TierReached(pct, "") /\ CacheKey(user, g, d, "") \notin cache THEN ""
    ELSE IF TierReached(pct, "_90") /\ CacheKey(user, g, d, "_90") \notin cache THEN "_90"
    ELSE IF TierReached(pct, "_80") /\ CacheKey(user, g, d, "_80") \notin cache THEN "_80"
    ELSE "skip"

\* the achievement dict; milestone "" stands for the key being absent
Achievement(g, goal_value, actual10, pct, d, suffix) ==
    [goal_type |-> g, goal_value |-> goal_value, actual_value |-> actual10,
     percentage |-> pct, date |-> d, achieved |-> (suffix = ""),
     milestone |-> CASE suffix = "" -> "" [] suffix = "_90" -> "90%" [] suffix = "_80" -> "80%"]

\* ToastNotificationObserver._get_title / _get_message: which text is chosen
TextKind(a) ==
    IF a.percentage >= 1000 THEN "achieved"
    ELSE IF a.percentage >= 900 THEN "almost"
    ELSE "progress"

NotificationId(user, a) == <<user, a.goal_type, a.date>>

\* ToastNotificationObserver.notify
ToastNotify(ns, user, a) ==
    LET ns1 == IF user \notin DOMAIN ns THEN Put(ns, user, <<>>) ELSE ns
        id  == NotificationId(user, a)
        existing == \E i \in 1..Len(ns1[user]) : ns1[user][i].id = id
        n   == [id |-> id, type |-> "goal_achievement", title |-> TextKind(a),
                message |-> TextKind(a), achievement |-> a, read |-> FALSE,
                created_at |-> DateIso(a.date)]
    IN  IF existing THEN ns1 ELSE Put(ns1, user, Append(ns1[user], n))

\* GoalTracker.observers, as get_goal_tracker attaches them
Observers == <<"ToastNotificationObserver", "LoggingObserver">>

\* GoalTracker.notify_observers: the observers are notified in order; only the
\* toast observer keeps state.  raising: the observers whose notify raises; the
\* exception leaves the loop, and an observer that raises has changed nothing.
\* Returns the feed, who was notified, and whether the call raised.
RECURSIVE NotifyFrom(_, _, _, _, _)
NotifyFrom(i, ns, user, a, raising) ==
    IF i > Len(Observers) THEN [ns |-> ns, notified |-> <<>>, raised |-> FALSE]
    ELSE IF Observers[i] \in raising
    THEN [ns |-> ns, notified |-> <<>>, raised |-> TRUE]
    ELSE LET ns1  == IF Observers[i] = "ToastNotificationObserver"
                     THEN ToastNotify(ns, user, a) ELSE ns
             rest == NotifyFrom(i + 1, ns1, user, a, raising)
         IN  [ns |-> rest.ns, notified |-> <<Observers[i]>> \o rest.notified,
              raised |-> rest.raised]
notify_observers(ns, user, a, raising) == NotifyFrom(1, ns, user, a, raising)

\* faulty variant of CheckGoalsFrom: a goal without a target ends the call
\* instead of being passed over
RECURSIVE CheckGoalsFrom_stop_at_skip(_, _, _, _, _, _, _)
CheckGoalsFrom_stop_at_skip(i, G, user, daily_stats, user_goals, target_date, raising) ==
    IF i > Len(GoalTypes) THEN G
    ELSE
      LET g          == GoalTypes[i]
          actual10   == GetOr0(daily_stats, StatKey(g))
          goal_value == GetOr0(user_goals, GoalKey(g))
          next(H)    == CheckGoalsFrom_stop_at_skip(i + 1, H, user, daily_stats,
                                                    user_goals, target_date, raising)
      IN  IF goal_value <= 0 THEN G
          ELSE
            LET pct    == Percentage(actual10, goal_value)
                suffix == Branch(G.cache, user, g, target_date, pct)
                a      == Achievement(g, goal_value, actual10, pct, target_date, suffix)
                d      == notify_observers(G.ns, user, a, raising)
            IN  IF suffix = "skip" THEN next(G)
                ELSE next([ns |-> d.ns,
                           cache |-> G.cache \cup {CacheKey(user, g, target_date, suffix)},
                           dispatched |-> Append(G.dispatched, a),
                           notified |-> Append(G.notified, d.notified),
                           raised |-> FALSE])

\* GoalTracker.check_goals from goal type number i on.  G: the tracker and the
\* feed, [ns, cache, dispatched, notified, raised]; dispatched lists the
\* achievements handed to notify_observers by this call and notified, for each
\* of them, the observers that were notified.  An exception of
\* notify_observers ends the call before the cache key is set.
RECURSIVE CheckGoalsFrom(_, _, _, _, _, _, _)
CheckGoalsFrom(i, G, user, daily_stats, user_goals, target_date, raising) ==
    IF i > Len(GoalTypes) THEN G
    ELSE
      LET g          == GoalTypes[i]
          actual10   == GetOr0(daily_stats, StatKey(g))
          goal_value == GetOr0(user_goals, GoalKey(g))
      IN  IF goal_value <= 0
          THEN CheckGoalsFrom(i + 1, G, user, daily_stats, user_goals, target_date, raising)
          ELSE
            LET pct    == Percentage(actual10, goal_value)
                suffix == Branch(G.cache, user, g, target_date, pct)
            IN  IF suffix = "skip"
                THEN CheckGoalsFrom(i + 1, G, user, daily_stats, user_goals,
                                    target_date, raising)
                ELSE
                  LET a  == Achievement(g, goal_value, actual10, pct, target_date, suffix)
                      d  == notify_observers(G.ns, user, a, raising)
                      G1 == [ns |-> d.ns,
                             cache |-> IF d.raised THEN G.cache
                                       ELSE G.cache \cup
                                              {CacheKey(user, g, target_date, suffix)},
                             dispatched |-> Append(G.dispatched, a),
                             notified |-> Append(G.notified, d.notified),
                             raised |-> d.raised]
                  IN  IF d.raised THEN G1
                      ELSE CheckGoalsFrom(i + 1, G1, user, daily_stats, user_goals,
                                          target_date, raising)

check_goals(ns, cache, user, daily_stats, user_goals, target_date, raising) ==
    CheckGoalsFrom(1, [ns |-> ns, cache |-> cache, dispatched |-> <<>>,
                       notified |-> <<>>, raised |-> FALSE],
                   user, daily_stats, user_goals, target_date, raising)

\* [x for x in seq if keep(x)], for the two filters on the read flag
RECURSIVE SelectRead(_, _)
SelectRead(seq, flag) ==
    IF seq = <<>> THEN <<>>
    ELSE IF Head(seq).read = flag
         THEN <<Head(seq)>> \o SelectRead(Tail(seq), flag)
         ELSE SelectRead(Tail(seq), flag)

\* seq[:k] of Python, k of either sign
PySlicePrefix(seq, k) ==
    IF k >= 0 THEN SubSeq(seq, 1, Min(k, Len(seq)))
    ELSE SubSeq(seq, 1, Max(0, Len(seq) + k))

\* list.sort(key=created_at, reverse=True): stable, newest first
RECURSIVE InsertNewestFirst(_, _)
InsertNewestFirst(sorted, n) ==
    IF sorted = <<>> THEN <<n>>
    ELSE IF Head(sorted).created_at[2] >= n.created_at[2]
         THEN <<Head(sorted)>> \o InsertNewestFirst(Tail(sorted), n)
         ELSE <<n>> \o sorted
RECURSIVE SortNewestFirst(_)
SortNewestFirst(seq) ==
    IF seq = <<>> THEN <<>>
    ELSE InsertNewestFirst(SortNewestFirst(SubSeq(seq, 1, Len(seq) - 1)), seq[Len(seq)])

MAX_NOTIFICATIONS == 10
KEEP_DAYS == 7

\* faulty variant of DropOldRead: a notification exactly 7 days old counts as old
RECURSIVE DropOldRead_inclusive(_, _)
DropOldRead_inclusive(seq, t) ==
    IF seq = <<>> THEN <<>>
    ELSE LET n      == Head(seq)
             is_old == DateTimeFromIso(n.created_at) <= t - KEEP_DAYS * Hours(24)
         IN  IF ~n.read \/ ~is_old
             THEN <<n>> \o DropOldRead_inclusive(Tail(seq), t)
             ELSE DropOldRead_inclusive(Tail(seq), t)

\* step 1 of _cleanup_old_notifications: keep if unread or not old
RECURSIVE DropOldRead(_, _)
DropOldRead(seq, t) ==
    IF seq = <<>> THEN <<>>
    ELSE LET n      == Head(seq)
             is_old == DateTimeFromIso(n.created_at) < t - KEEP_DAYS * Hours(24)
         IN  IF ~n.read \/ ~is_old
             THEN <<n>> \o DropOldRead(Tail(seq), t)
             ELSE DropOldRead(Tail(seq), t)

\* faulty variant of EnforceMaximum: the newest 10 are kept, read or not
EnforceMaximum_newest(filtered) ==
    IF Len(filtered) > MAX_NOTIFICATIONS
    THEN PySlicePrefix(SortNewestFirst(filtered), MAX_NOTIFICATIONS)
    ELSE filtered

\* step 2 of _cleanup_old_notifications
EnforceMaximum(filtered) ==
    IF Len(filtered) > MAX_NOTIFICATIONS
    THEN LET sorted == SortNewestFirst(filtered)
             unread == SelectRead(sorted, FALSE)
             read   == SelectRead(sorted, TRUE)
             remaining_slots == MAX_NOTIFICATIONS - Len(unread)
         IN  unread \o PySlicePrefix(read, remaining_slots)
    ELSE filtered

\* ToastNotificationObserver._cleanup_old_notifications
CleanupOldNotifications(ns, user, t) ==
    IF user \notin DOMAIN ns THEN ns
    ELSE IF ns[user] = <<>> THEN ns
    ELSE Put(ns, user, EnforceMaximum(DropOldRead(ns[user], t)))

\* faulty variant of get_notifications: unread_only is not honoured
get_notifications_unfiltered(ns, user, unread_only, t) ==
    LET ns1 == CleanupOldNotifications(ns, user, t)
    IN  [ns |-> ns1, returned |-> IF user \notin DOMAIN ns1 THEN <<>> ELSE ns1[user]]

\* ToastNotificationObserver.get_notifications
get_notifications(ns, user, unread_only, t) ==
    LET ns1 == CleanupOldNotifications(ns, user, t)
    IN  [ns |-> ns1,
         returned |-> IF user \notin DOMAIN ns1 THEN <<>>
                      ELSE IF unread_only THEN SelectRead(ns1[user], FALSE)
                      ELSE ns1[user]]

\* ToastNotificationObserver.mark_as_read: the first entry with that id
RECURSIVE MarkFirst(_, _)
MarkFirst(seq, id) ==
    IF seq = <<>> THEN <<>>
    ELSE IF Head(seq).id = id
         THEN <<[Head(seq) EXCEPT !.read = TRUE]>> \o Tail(seq)
         ELSE <<Head(seq)>> \o MarkFirst(Tail(seq), id)
\* faulty variant of mark_as_read: the id is looked up in the lists of all users
mark_as_read_any_user(ns, user, id) ==
    [u \in DOMAIN ns |-> MarkFirst(ns[u], id)]
mark_as_read(ns, user, id) ==
    IF user \in DOMAIN ns THEN Put(ns, user, MarkFirst(ns[user], id)) ELSE ns

\* faulty variant of clear_notifications: the lists of all users are emptied
clear_notifications_all_users(ns, user) ==
    [u \in DOMAIN ns |-> <<>>]

\* ToastNotificationObserver.clear_notifications
clear_notifications(ns, user) ==
    IF user \in DOMAIN ns THEN Put(ns, user, <<>>) ELSE ns

(***************************************************************************)
(* Goal observer: state machine                                            *)
(***************************************************************************)
GoalCall(op, user, args, returned, dispatched) ==
    [op |-> op, user |-> user, args |-> args, returned |-> returned,
     dispatched |-> dispatched,
     \* check_goals: who was notified of each dispatched achievement, and
     \* whether the call raised
     notified |-> <<>>, raised |-> FALSE,
     \* a meal-logging request: the status of its response
     status |-> 0,
     \* the call before this one was the same call with the same arguments
     repeat |-> goal_last.op = op /\ goal_last.user = user /\ goal_last.args = args]

\* the list of a user, [] for a user without one
Feed(ns, user) == IF user \in DOMAIN ns THEN ns[user] ELSE <<>>

\* a day passes
DayPasses(maxDays) ==
    /\ Today(now) < maxDays
    /\ now' = now + Hours(24)
    /\ goal_last' = GoalCall("tick", "", <<>>, <<>>, <<>>)
    /\ UNCHANGED <<notifications, achievement_cache, scanned_dishes, tasks>>
    /\ UNCHANGED rl_vars

\* goal_tracker.check_goals(user_id, daily_stats, user_goals, target_date=today);
\* raising: the observers whose notify raises during this call
CheckGoalsWith(user, daily_stats, user_goals, raising) ==
    LET G == check_goals(notifications, achievement_cache, user, daily_stats,
                         user_goals, Today(now), raising)
    IN  /\ notifications' = G.ns
        /\ achievement_cache' = G.cache
        /\ goal_last' = [GoalCall("check_goals", user,
                                  <<daily_stats, user_goals, raising>>,
                                  <<>>, G.dispatched)
                           EXCEPT !.notified = G.notified, !.raised = G.raised]
        /\ UNCHANGED <<now, rl_vars, scanned_dishes, tasks>>

\* the same with the observers that get_goal_tracker attaches, none of which
\* raises, as POST /nutrition/analyze-and-log-dish calls it
CheckGoals(user, daily_stats, user_goals) ==
    CheckGoalsWith(user, daily_stats, user_goals, {})

\* GET /nutrition/notifications
GetNotifications(user, unread_only) ==
    LET r == get_notifications(notifications, user, unread_only, now)
    IN  /\ notifications' = r.ns
        /\ goal_last' = GoalCall("get_notifications", user, <<unread_only>>,
                                 r.returned, <<>>)
        /\ UNCHANGED <<achievement_cache, now, rl_vars, scanned_dishes, tasks>>

\* POST /nutrition/notifications/{notification_id}/read
MarkAsRead(user, notification_id) ==
    /\ notifications' = mark_as_read(notifications, user, notification_id)
    /\ goal_last' = GoalCall("mark_as_read", user, <<notification_id>>, <<>>, <<>>)
    /\ UNCHANGED <<achievement_cache, now, rl_vars, scanned_dishes, tasks>>

\* DELETE /nutrition/notifications
ClearNotifications(user) ==
    /\ notifications' = clear_notifications(notifications, user)
    /\ goal_last' = GoalCall("clear_notifications", user, <<>>, <<>>, <<>>)
    /\ UNCHANGED <<achievement_cache, now, rl_vars, scanned_dishes, tasks>>

\* h hours pass
HoursPass(h, maxDays) ==
    /\ now + Hours(h) <= maxDays * Hours(24)
    /\ now' = now + Hours(h)
    /\ goal_last' = GoalCall("tick", "", <<>>, <<>>, <<>>)
    /\ UNCHANGED <<notifications, achievement_cache, scanned_dishes, tasks>>
    /\ UNCHANGED rl_vars

\* What a meal-logging request does once the dish is known.  faults: the
\* database calls that raise during the request; raising: the observers that
\* raise.  Returns the tables, the tracker and the feed, and the status of the
\* response.
HTTP_500_INTERNAL_SERVER_ERROR == 500
NoStats == <<>>
Stored(dishes, user) == GetOr0(dishes, user)
InsertDish(dishes, user) == Put(dishes, user, Stored(dishes, user) + 1)

\* POST /nutrition/analyze-and-log-dish for an authenticated user, after the
\* analysis: every failure of the save and of the goal check is caught
analyze_and_log_dish(dishes, ns, cache, user, stats, user_goals, faults, raising, t) ==
    LET unchanged == [dishes |-> dishes, ns |-> ns, cache |-> cache,
                      dispatched |-> <<>>, notified |-> <<>>, raised |-> FALSE,
                      status |-> HTTP_200_OK]
    IN  IF "insert" \in faults THEN unchanged
        ELSE LET saved == [unchanged EXCEPT !.dishes = InsertDish(dishes, user)]
             IN  IF "stats" \in faults \/ stats = NoStats THEN saved
                 ELSE LET G == check_goals(ns, cache, user, stats, user_goals,
                                           Today(t), raising)
                      IN  [saved EXCEPT !.ns = G.ns, !.cache = G.cache,
                                        !.dispatched = G.dispatched,
                                        !.notified = G.notified,
                                        !.raised = G.raised]

\* POST /nutrition/log-meal: NutritionTrackingService.log_meal inserts the row,
\* reads the daily summary and the goals and notifies its own observers; only
\* the read of the goals is guarded
log_meal(dishes, user, faults) ==
    IF "insert" \in faults
    THEN [dishes |-> dishes, status |-> HTTP_500_INTERNAL_SERVER_ERROR]
    ELSE [dishes |-> InsertDish(dishes, user),
          status |-> IF "stats" \in faults \/ "observer" \in faults
                     THEN HTTP_500_INTERNAL_SERVER_ERROR
                     ELSE HTTP_200_OK]

AnalyzeAndLogDish(user, stats, user_goals, faults, raising) ==
    LET r == analyze_and_log_dish(scanned_dishes, notifications, achievement_cache,
                                  user, stats, user_goals, faults, raising, now)
    IN  /\ Stored(r.dishes, user) <= MaxDishes
        /\ scanned_dishes' = r.dishes
        /\ notifications' = r.ns
        /\ achievement_cache' = r.cache
        /\ goal_last' = [GoalCall("analyze_and_log_dish", user,
                                  <<stats, user_goals, raising, faults>>,
                                  <<>>, r.dispatched)
                           EXCEPT !.notified = r.notified, !.raised = r.raised,
                                  !.status = r.status]
        /\ UNCHANGED <<now, rl_vars, tasks>>

LogMeal(user, faults) ==
    LET r == log_meal(scanned_dishes, user, faults)
    IN  /\ Stored(r.dishes, user) <= MaxDishes
        /\ scanned_dishes' = r.dishes
        /\ goal_last' = [GoalCall("log_meal", user, <<faults>>, <<>>, <<>>)
                           EXCEPT !.status = r.status]
        /\ UNCHANGED <<notifications, achievement_cache, now, rl_vars, tasks>>

\* Two check_goals calls of one event loop.  A call runs without suspension
\* up to an await that suspends; the await of notify_observers suspends when
\* an observer awaits, here after every observer was notified and before the
\* cache key is written.
\* the first goal type from number i on for which check_goals dispatches, 0
\* when there is none
RECURSIVE FirstDispatch(_, _, _, _, _, _)
FirstDispatch(i, cache, user, daily_stats, user_goals, target_date) ==
    IF i > Len(GoalTypes) THEN 0
    ELSE LET g          == GoalTypes[i]
             goal_value == GetOr0(user_goals, GoalKey(g))
             pct        == Percentage(GetOr0(daily_stats, StatKey(g)), goal_value)
         IN  IF goal_value > 0 /\ Branch(cache, user, g, target_date, pct) # "skip"
             THEN i
             ELSE FirstDispatch(i + 1, cache, user, daily_stats, user_goals, target_date)

\* the call of task t runs from goal type number i on up to its next await of
\* notify_observers, or to its end
RunTask(t, i, user, daily_stats, user_goals, target_date, cache, done) ==
    LET j == FirstDispatch(i, cache, user, daily_stats, user_goals, target_date)
    IN  /\ achievement_cache' = cache
        /\ IF j = 0
           THEN /\ tasks' = [tasks EXCEPT ![t] = Idle]
                /\ notifications' = notifications
                /\ goal_last' = [GoalCall("check_goals", user,
                                          <<daily_stats, user_goals, {}>>, <<>>, done)
                                   EXCEPT !.notified = [k \in 1..Len(done) |-> Observers]]
           ELSE LET g          == GoalTypes[j]
                    goal_value == GetOr0(user_goals, GoalKey(g))
                    actual10   == GetOr0(daily_stats, StatKey(g))
                    pct        == Percentage(actual10, goal_value)
                    suffix     == Branch(cache, user, g, target_date, pct)
                    a          == Achievement(g, goal_value, actual10, pct,
                                              target_date, suffix)
                IN  /\ notifications' = notify_observers(notifications, user, a, {}).ns
                    /\ tasks' = [tasks EXCEPT ![t] =
                                   [pc |-> "await", user |-> user,
                                    daily_stats |-> daily_stats,
                                    user_goals |-> user_goals,
                                    target_date |-> target_date, i |-> j,
                                    suffix |-> suffix, a |-> a,
                                    done |-> Append(done, a)]]
                    /\ UNCHANGED goal_last
        /\ UNCHANGED <<now, rl_vars, scanned_dishes>>

\* a request calls check_goals
TaskBegins(t, user, daily_stats, user_goals) ==
    /\ tasks[t].pc = "idle"
    /\ RunTask(t, 1, user, daily_stats, user_goals, Today(now), achievement_cache, <<>>)

\* the await of notify_observers returns: the cache key is written and the
\* loop goes on
TaskResumes(t) ==
    LET w == tasks[t]
    IN  /\ w.pc = "await"
        /\ RunTask(t, w.i + 1, w.user, w.daily_stats, w.user_goals, w.target_date,
                   achievement_cache \cup
                      {CacheKey(w.user, GoalTypes[w.i], w.target_date, w.suffix)},
                   w.done)

GoalInit ==
    /\ now = 0
    /\ LimiterStart
    /\ redis_up = TRUE
    /\ GoalStart

\* Inputs of the goal tracker.  Totals are in tenths of a unit.
Users == {"u1", "u2"}
Stats(calories, protein, carbs, fat) ==
    [total_calories |-> calories, total_protein_g |-> protein,
     total_carbs_g |-> carbs, total_fat_g |-> fat]
Goals(calories, protein, carbs, fat) ==
    [daily_calorie_goal |-> calories, daily_protein_goal |-> protein,
     daily_carbs_goal |-> carbs, daily_fat_goal |-> fat]
\* the goals analyze_and_log_dish falls back to
DefaultGoals == Goals(2000, 150, 250, 70)
\* a user who set a calorie and a protein goal only
TwoGoals == Goals(2000, 150, 0, 0)
\* protein at 66.7 %, 83.3 %, 93.3 % and 100 % of 150 g
ProteinTotals == {1000, 1250, 1400, 1500}
\* calories at 0 % and 100 % of 2000 kcal
CalorieTotals == {0, 20000}
TierStats == { Stats(c, p, 0, 0) : c \in CalorieTotals, p \in ProteinTotals }
\* every total at its default goal
AllReached == Stats(20000, 1500, 2500, 700)

FeedUser == "u1"
NotificationIds(users, maxDay) ==
    { <<u, GoalTypes[i], d>> : u \in users, i \in 1..Len(GoalTypes), d \in 0..maxDay }

\* the ids a client marks: those of the protein notifications, its own or not
MarkedIds == { id \in NotificationIds(Users, 0) : id[2] = "protein" }

\* One day of two users: u1 moves through the tiers of its protein goal and
\* reaches its calorie goal, u2 reaches all four default goals at once.
GoalNext ==
    \/ \E s \in TierStats : CheckGoals("u1", s, TwoGoals)
    \/ CheckGoals("u2", AllReached, DefaultGoals)
    \/ \E u \in Users, unread_only \in BOOLEAN : GetNotifications(u, unread_only)
    \/ \E u \in Users, id \in MarkedIds : MarkAsRead(u, id)
    \/ \E u \in Users : ClearNotifications(u)

SpecGoal == GoalInit /\ [][GoalNext]_vars

\* the notifications the user of the feed marks read: those of one goal type
FeedMarkedIds == { id \in NotificationIds({FeedUser}, MaxFeedDays) : id[2] = "fat" }

\* Several days of one user who reaches all four default goals on any of
\* them, reads the feed and marks notifications read.
FeedNext ==
    \/ DayPasses(MaxFeedDays)
    \/ CheckGoals(FeedUser, AllReached, DefaultGoals)
    \/ \E unread_only \in BOOLEAN : GetNotifications(FeedUser, unread_only)
    \/ \E id \in FeedMarkedIds : MarkAsRead(FeedUser, id)

SpecFeed == GoalInit /\ [][FeedNext]_vars

\* Nine days of one user, in steps of half a day: the user reaches the protein
\* goal on the first days, reads the feed and marks notifications read while
\* they age.
ProteinReached == Stats(0, 1500, 0, 0)
AgeMarkedIds == { id \in NotificationIds({FeedUser}, LastGoalDay) : id[2] = "protein" }
AgeNext ==
    \/ HoursPass(12, MaxAgeDays)
    \/ Today(now) <= LastGoalDay /\ CheckGoals(FeedUser, ProteinReached, TwoGoals)
    \/ \E unread_only \in BOOLEAN : GetNotifications(FeedUser, unread_only)
    \/ \E id \in AgeMarkedIds : MarkAsRead(FeedUser, id)

SpecAge == GoalInit /\ [][AgeNext]_vars

\* One user who reaches all four default goals on the first days and marks
\* notifications read; once the feed is full the clock moves on in steps of
\* three and a half days, until the notifications are a week old.
ReadMarkedIds == { id \in NotificationIds({FeedUser}, ReadGoalDays) : id[2] = "fat" }
ReadNext ==
    \/ HoursPass(24, ReadGoalDays)
    \/ Today(now) >= ReadGoalDays /\ HoursPass(84, MaxAgeDays)
    \/ Today(now) <= ReadGoalDays /\ CheckGoals(FeedUser, AllReached, DefaultGoals)
    \/ \E unread_only \in BOOLEAN : GetNotifications(FeedUser, unread_only)
    \/ \E id \in ReadMarkedIds : MarkAsRead(FeedUser, id)

SpecRead == GoalInit /\ [][ReadNext]_vars

\* One day of one user whose four totals are checked against goals of which
\* some are 0 or not set at all.
SkipGoals ==
    { DefaultGoals, Goals(0, 150, 0, 70), Goals(2000, 0, 250, 0),
      [daily_protein_goal |-> 150], [daily_carbs_goal |-> 250, daily_fat_goal |-> 70] }
SkipStats == { AllReached, Stats(20000, 1250, 2500, 0), Stats(0, 1400, 2500, 700) }
SkipNext ==
    \/ \E s \in SkipStats, g \in SkipGoals : CheckGoals(FeedUser, s, g)
    \/ \E unread_only \in BOOLEAN : GetNotifications(FeedUser, unread_only)
    \/ ClearNotifications(FeedUser)

SpecSkip == GoalInit /\ [][SkipNext]_vars

\* One day of one user for whom two requests check the calorie and protein
\* totals while the other may be suspended.
TaskNext ==
    \/ \E t \in Tasks, s \in TierStats : TaskBegins(t, FeedUser, s, TwoGoals)
    \/ \E t \in Tasks : TaskResumes(t)

SpecTasks == GoalInit /\ [][TaskNext]_vars

\* One day of one user whose calorie and protein totals are checked while
\* either observer may raise.
RaisingSets == { {}, {"ToastNotificationObserver"}, {"LoggingObserver"} }
ObserverNext ==
    \/ \E s \in TierStats, raising \in RaisingSets :
          CheckGoalsWith(FeedUser, s, TwoGoals, raising)
    \/ \E unread_only \in BOOLEAN : GetNotifications(FeedUser, unread_only)
    \/ MarkAsRead(FeedUser, <<FeedUser, "protein", 0>>)
    \/ ClearNotifications(FeedUser)

SpecObserver == GoalInit /\ [][ObserverNext]_vars

\* One day of one user who logs meals on both paths while one of the database
\* calls, or an observer, may fail.
FaultSets == { {}, {"insert"}, {"stats"}, {"goals"}, {"observer"} }
MealStats == { NoStats, Stats(0, 1250, 0, 0), Stats(20000, 1500, 0, 0) }
MealNext ==
    \/ \E s \in MealStats, f \in FaultSets, raising \in RaisingSets :
          AnalyzeAndLogDish(FeedUser, s, TwoGoals, f, raising)
    \/ \E f \in FaultSets : LogMeal(FeedUser, f)
    \/ \E unread_only \in BOOLEAN : GetNotifications(FeedUser, unread_only)

SpecMeal == GoalInit /\ [][MealNext]_vars

(***************************************************************************)
(* Claims on the rate limiter                                              *)
(***************************************************************************)
\* what the two backends hold for an ip
MemCount(ut, ip) == IF ip \in DOMAIN ut THEN ut[ip].count ELSE 0
StoreCount(rs, ip) ==
    IF RedisKey(ip) \in DOMAIN rs THEN JsonLoads(rs[RedisKey(ip)].data).count ELSE 0
StoreResetAt(rs, ip) == FromIsoFormat(JsonLoads(rs[RedisKey(ip)].data).reset_at)

AnonymousCheck(l) == l.op \in {"check_limit", "check_rate_limit"} /\ ~l.auth

\* the cycles the ip had completed when the last call began
CyclesBefore(ip) ==
    IF last.op = "check_rate_limit" /\ last.backend2 # "none"
    THEN hist[ip].cycles - 1
    ELSE hist[ip].cycles

\* C1: an ip that started with no usage record and ran exactly
\* max_requests_anonymous check+increment cycles (allowed gate calls) with no
\* window expiry in between is refused by the next check_limit(ip, False):
\* allowed = false, remaining = 0.
C1_QuotaExhaustedAfterMaxCycles ==
    \A ip \in IPs :
        ( /\ AnonymousCheck(last) /\ last.ip = ip
          /\ hist[ip].backend # "void"
          /\ CyclesBefore(ip) = max_requests_anonymous )
        => (~last.res.allowed /\ last.res.remaining = 0)

C1_Witness ==
    /\ last.op = "check_limit" /\ ~last.auth /\ last.backend = "memory"
    /\ hist[last.ip] = [cycles |-> max_requests_anonymous, backend |-> "memory"]
    /\ ~last.res.allowed /\ last.res.remaining = 0

\* C2: check_limit is idempotent: a check_limit(ip, False) that directly
\* follows a check_limit(ip, False) returns the same allowed and remaining,
\* and no check_limit call increases a count.
C2_CheckIdempotent ==
    [][ (last'.op = "check_limit" /\ ~last'.auth) =>
          /\ \A ip \in IPs :
                /\ MemCount(usage_tracker', ip) <= MemCount(usage_tracker, ip)
                /\ StoreCount(redis_store', ip) <= StoreCount(redis_store, ip)
          /\ (last.op = "check_limit" /\ ~last.auth /\ last.ip = last'.ip) =>
                /\ last'.res.allowed = last.res.allowed
                /\ last'.res.remaining = last.res.remaining ]_vars

C2_Witness ==
    /\ last.op = "check_limit" /\ ~last.auth /\ last.repeat
    /\ last.ip \in DOMAIN usage_tracker
    /\ usage_tracker[last.ip].count = 2
    /\ last.res.allowed /\ last.res.remaining = 1

C4_AuthenticatedUnlimited ==
    [][ (last'.op \in {"check_limit", "check_rate_limit"} /\ last'.auth) =>
          /\ last'.res.allowed
          /\ last'.res.remaining = UNLIMITED
          /\ last'.op = "check_rate_limit" => last'.status = HTTP_200_OK
          /\ usage_tracker' = usage_tracker
          /\ redis_store' = redis_store ]_vars

C4_Witness ==
    /\ last.op = "check_rate_limit" /\ last.auth
    /\ last.status = HTTP_200_OK /\ last.res.remaining = UNLIMITED
    /\ MemCount(usage_tracker, last.ip) = max_requests_anonymous

\* C6: a gate call for an anonymous ip whose quota is used up ends in the 429
\* outcome with limit = max_requests_anonymous, the window's reset_at and
\* requires_auth = true, and the rejected call changes no usage record.
Exhausted(ip, backend) ==
    \/ /\ backend = "memory"
       /\ ip \in DOMAIN usage_tracker
       /\ usage_tracker[ip].count >= max_requests_anonymous
       /\ now < usage_tracker[ip].reset_at
    \/ /\ backend = "redis"
       /\ RedisLive(redis_store, RedisKey(ip), now)
       /\ StoreCount(redis_store, ip) >= max_requests_anonymous

WindowEnd(ip, backend) ==
    IF backend = "memory" THEN usage_tracker[ip].reset_at
    ELSE StoreResetAt(redis_store, ip)

C6_RejectedCallCountsNothing ==
    [][ (last'.op = "check_rate_limit" /\ ~last'.auth) =>
          /\ Exhausted(last'.ip, last'.backend)
                => last'.status = HTTP_429_TOO_MANY_REQUESTS
          /\ last'.status = HTTP_429_TOO_MANY_REQUESTS =>
                /\ Exhausted(last'.ip, last'.backend)
                /\ last'.detail.limit = max_requests_anonymous
                /\ last'.detail.reset_at
                      = StrfTime(WindowEnd(last'.ip, last'.backend))
                /\ last'.detail.requires_auth
                /\ usage_tracker' = usage_tracker
                /\ redis_store' = redis_store ]_vars

C6_Witness ==
    /\ last.op = "check_rate_limit" /\ ~last.auth
    /\ last.status = HTTP_429_TOO_MANY_REQUESTS
    /\ last.backend = "redis"
    /\ StoreCount(redis_store, last.ip) = max_requests_anonymous
\* C5: with a store client configured and every store operation raising, the
\* gate enforces the quota on the in-memory table: the first
\* max_requests_anonymous anonymous gate calls of an ip pass with remaining
\* counting down from the full quota, and the next one is rejected.
C5_FallbackEnforcesQuota ==
    \A ip \in IPs :
        ( /\ last.op = "check_rate_limit" /\ ~last.auth /\ last.ip = ip
          /\ redis_client /\ ~redis_up
          /\ hist[ip].backend = "memory" )
        => IF CyclesBefore(ip) < max_requests_anonymous
           THEN /\ last.status = HTTP_200_OK
                /\ last.res.remaining = max_requests_anonymous - CyclesBefore(ip)
                /\ MemCount(usage_tracker, ip) = CyclesBefore(ip) + 1
           ELSE /\ last.status = HTTP_429_TOO_MANY_REQUESTS
                /\ MemCount(usage_tracker, ip) = max_requests_anonymous

C5_Witness ==
    /\ last.op = "check_rate_limit" /\ ~last.auth
    /\ redis_client /\ ~redis_up
    /\ hist[last.ip] = [cycles |-> max_requests_anonymous, backend |-> "memory"]
    /\ last.status = HTTP_429_TOO_MANY_REQUESTS
    /\ last.backend = "memory"

\* C7: get_usage(ip) and the rate-limit-status request read only: they change
\* nothing of the limiter on either backend, and report count 0, the full
\* quota and no reset_at for an ip without a record, otherwise the record's
\* count with remaining = max(0, max_requests_anonymous - count).
C7_GetUsageReadOnly ==
    [][ (last'.op \in {"get_usage", "rate_limit_status"}) =>
          /\ usage_tracker' = usage_tracker
          /\ redis_store' = redis_store
          /\ redis_client' = redis_client
          /\ redis_init_attempted' = redis_init_attempted
          /\ ~last'.auth =>
               LET ip == last'.ip
                   held == IF last'.backend = "memory"
                           THEN ip \in DOMAIN usage_tracker
                           ELSE RedisLive(redis_store, RedisKey(ip), now)
                   count == IF last'.backend = "memory"
                            THEN MemCount(usage_tracker, ip)
                            ELSE StoreCount(redis_store, ip)
               IN  IF ~held
                   THEN last'.res = Usage(0, max_requests_anonymous, NoneTime)
                   ELSE /\ last'.res.count = count
                        /\ last'.res.remaining >= 0
                        /\ last'.res.remaining >= max_requests_anonymous - count
                        /\ last'.res.remaining
                              \in {0, max_requests_anonymous - count}
                        /\ last'.res.reset_at = WindowEnd(ip, last'.backend) ]_vars

C7_Witness ==
    /\ last.op = "get_usage"
    /\ last.res.count > max_requests_anonymous
    /\ last.res.remaining = 0
    /\ last.repeat

(***************************************************************************)
(* Claims on the goal observer                                             *)
(***************************************************************************)
\* the entries of a list that carry the id
WithId(list, id) == { k \in 1..Len(list) : list[k].id = id }
\* the entries of a list that were created for the achievement
CreatedFor(list, a) == { k \in 1..Len(list) : list[k].achievement = a }

\* C8: a notification is created in the user's feed once for each
\* (user, goal_type, date, tier), the first time check_goals sees the
\* percentage inside the band of the tier: after a check_goals call, every
\* achievement the call dispatched has its notification in the feed of the
\* user, whichever other tier of the goal was notified earlier that day.
C8_NotificationPerTier ==
    [][ goal_last'.op = "check_goals" =>
          \A i \in 1..Len(goal_last'.dispatched) :
              CreatedFor(Feed(notifications', goal_last'.user),
                         goal_last'.dispatched[i]) # {} ]_vars

\* C9: check_goals is idempotent on the feed.  A call that finds no cache key
\* and no notification of a goal whose total equals its target creates exactly
\* one notification for it, with achieved = true at 100.0 %; a call that
\* repeats the call before it (same user, totals, goals and date) leaves the
\* feed as it is and dispatches nothing; no list ever holds two entries with
\* the same id.
C9_CheckGoalsIdempotent ==
    [][ /\ \A u \in DOMAIN notifications' : \A k \in 1..Len(notifications'[u]) :
              WithId(notifications'[u], notifications'[u][k].id) = {k}
        /\ goal_last'.op = "check_goals" =>
             LET u     == goal_last'.user
                 stats == goal_last'.args[1]
                 goals == goal_last'.args[2]
                 d     == Today(now)
             IN  /\ goal_last'.repeat =>
                       /\ notifications' = notifications
                       /\ goal_last'.dispatched = <<>>
                 /\ \A i \in 1..Len(GoalTypes) :
                       LET g  == GoalTypes[i]
                           id == <<u, g, d>>
                       IN  ( /\ GetOr0(goals, GoalKey(g)) > 0
                             /\ GetOr0(stats, StatKey(g)) = 10 * GetOr0(goals, GoalKey(g))
                             /\ WithId(Feed(notifications, u), id) = {}
                             /\ \A x \in {"", "_90", "_80"} :
                                    CacheKey(u, g, d, x) \notin achievement_cache )
                           => /\ Cardinality(WithId(Feed(notifications', u), id)) = 1
                              /\ \A k \in WithId(Feed(notifications', u), id) :
                                    /\ notifications'[u][k].achievement.achieved
                                    /\ notifications'[u][k].achievement.percentage = 1000
                                    /\ ~notifications'[u][k].read ]_vars

C9_Witness ==
    /\ goal_last.op = "check_goals"
    /\ goal_last.repeat
    /\ goal_last.dispatched = <<>>
    /\ goal_last.args[1].total_protein_g = 10 * goal_last.args[2].daily_protein_goal
    /\ \E k \in 1..Len(Feed(notifications, goal_last.user)) :
          LET n == notifications[goal_last.user][k]
          IN  /\ n.id = <<goal_last.user, "protein", Today(now)>>
              /\ n.achievement.achieved
              /\ n.achievement.percentage = 1000

\* the entries of a list, as a set
Entries(list) == { list[k] : k \in 1..Len(list) }
\* the entries of a list that the 7-day age rule lets through at time t
SurvivingAge(list, t) ==
    { n \in Entries(list) :
        ~n.read \/ DateTimeFromIso(n.created_at) >= t - KEEP_DAYS * Hours(24) }

\* C10: after a get_notifications(user) call in which more than 10
\* notifications survive the 7-day age rule, the list of the user holds every
\* unread notification and exactly max(0, 10 - number of unread) read ones,
\* and the read ones kept are the newest by created_at.
C10_SizePruning ==
    [][ goal_last'.op = "get_notifications" =>
          LET before   == Feed(notifications, goal_last'.user)
              after    == Feed(notifications', goal_last'.user)
              surviving == SurvivingAge(before, now)
              unread   == { n \in surviving : ~n.read }
              read     == { n \in surviving : n.read }
              keptRead == read \cap Entries(after)
          IN  Cardinality(surviving) > MAX_NOTIFICATIONS =>
                /\ Entries(after) \subseteq surviving
                /\ Len(after) = Cardinality(Entries(after))
                /\ unread \subseteq Entries(after)
                /\ Cardinality(keptRead)
                     = Max(0, MAX_NOTIFICATIONS - Cardinality(unread))
                /\ \A kept \in keptRead : \A dropped \in read \ keptRead :
                      DateTimeFromIso(kept.created_at)
                        >= DateTimeFromIso(dropped.created_at) ]_vars

\* C11: after a get_notifications(user) call the list of the user holds no
\* notification that is read and was created more than 7 days ago, however
\* short the list; a read notification created at most 7 days ago is not
\* removed by the age rule (it stays unless more than 10 survive the rule).
C11_AgePruning ==
    [][ goal_last'.op = "get_notifications" =>
          LET before == Feed(notifications, goal_last'.user)
              after  == Feed(notifications', goal_last'.user)
              limit  == now - KEEP_DAYS * Hours(24)
          IN  /\ \A n \in Entries(after) :
                    ~(n.read /\ DateTimeFromIso(n.created_at) < limit)
              /\ Cardinality(SurvivingAge(before, now)) <= MAX_NOTIFICATIONS =>
                    \A n \in Entries(before) :
                        (n.read /\ DateTimeFromIso(n.created_at) >= limit)
                           => n \in Entries(after) ]_vars

\* a read notification exactly 7 days old was kept by the call that removed an
\* older read one from a list of two
C11_Witness ==
    /\ goal_last.op = "get_notifications"
    /\ CacheKey(FeedUser, "protein", 0, "") \in achievement_cache
    /\ WithId(Feed(notifications, FeedUser), <<FeedUser, "protein", 0>>) = {}
    /\ \E n \in Entries(Feed(notifications, FeedUser)) :
          /\ n.read
          /\ DateTimeFromIso(n.created_at) = now - KEEP_DAYS * Hours(24)

\* what a get_notifications call owes to the read entries of the list it
\* found: with unread_only it returns none of them, without it returns each
\* with read = true; must(n) says for which read entries this is owed
ReadEntriesListed(must(_)) ==
    goal_last'.op = "get_notifications" =>
        LET before == Feed(notifications, goal_last'.user)
            shown  == Entries(goal_last'.returned)
        IN  /\ goal_last'.args[1] => \A n \in shown : ~n.read
            /\ ~goal_last'.args[1] =>
                 \A n \in Entries(before) : (n.read /\ must(n)) => n \in shown
\* no step turns the read flag of a notification back to false
ReadFlagKept ==
    \A u \in DOMAIN notifications : \A n \in Entries(notifications[u]) :
        n.read => [n EXCEPT !.read = FALSE] \notin Entries(Feed(notifications', u))
NotOlderThanAWeek(n) == DateTimeFromIso(n.created_at) >= now - KEEP_DAYS * Hours(24)

\* C12, as stated: once a notification that is not older than 7 days is
\* marked read, get_notifications(unread_only=True) does not return it,
\* get_notifications(unread_only=False) returns it with read = true, and its
\* read flag never goes back to false.
C12_MarkedReadStaysListed ==
    [][ ReadFlagKept /\ ReadEntriesListed(NotOlderThanAWeek) ]_vars

\* C12, amended: the same, for calls in which at most 10 notifications
\* survive the 7-day age rule (beyond that the size rule may drop the read
\* notification from the list).
C12_MarkedReadListedWithinMaximum ==
    [][ /\ ReadFlagKept
        /\ ReadEntriesListed(LAMBDA n :
              /\ NotOlderThanAWeek(n)
              /\ Cardinality(SurvivingAge(Feed(notifications, goal_last'.user), now))
                    <= MAX_NOTIFICATIONS) ]_vars

\* a full list with a read notification exactly 7 days old, just returned
\* without it by get_notifications(unread_only=True)
C12_Witness ==
    /\ goal_last.op = "get_notifications"
    /\ goal_last.args = <<TRUE>>
    /\ goal_last.returned # <<>>
    /\ Len(Feed(notifications, FeedUser)) = MAX_NOTIFICATIONS
    /\ \E n \in Entries(Feed(notifications, FeedUser)) :
          /\ n.read
          /\ DateTimeFromIso(n.created_at) = now - KEEP_DAYS * Hours(24)
          /\ n \notin Entries(goal_last.returned)

\* C13: mark_as_read(user, id) with an id that no notification of that user
\* carries, also for a user without a list, changes no list and no read flag
\* of any user (the call has no path that raises).
C13_MarkUnknownIsNoOp ==
    [][ ( /\ goal_last'.op = "mark_as_read"
          /\ WithId(Feed(notifications, goal_last'.user), goal_last'.args[1]) = {} )
        => notifications' = notifications ]_vars

\* a user without a list has just marked the id of another user's unread
\* notification
C13_Witness ==
    /\ goal_last.op = "mark_as_read"
    /\ goal_last.user = "u2"
    /\ "u2" \notin DOMAIN notifications
    /\ \E n \in Entries(Feed(notifications, "u1")) :
          n.id = goal_last.args[1] /\ ~n.read

\* the observers in a sequence of them
Named(seq) == { seq[k] : k \in 1..Len(seq) }

\* C14: dispatch is best-effort per observer: of every achievement that a
\* check_goals call hands to notify_observers, every attached observer whose
\* notify does not raise is notified, whichever other observer raises.
C14_EveryOtherObserverNotified ==
    [][ goal_last'.op = "check_goals" =>
          \A i \in 1..Len(goal_last'.dispatched) :
              Named(Observers) \ goal_last'.args[3]
                 \subseteq Named(goal_last'.notified[i]) ]_vars

\* C15: a failure while the daily stats or the goals are fetched, inside
\* check_goals or in an observer never fails the meal-logging request: on
\* both paths, a request that stored its row answers with its normal success
\* response, and no stored row is lost.
C15_StoredMealSucceeds ==
    [][ /\ \A u \in DOMAIN scanned_dishes :
              Stored(scanned_dishes', u) >= scanned_dishes[u]
        /\ ( /\ goal_last'.op \in {"analyze_and_log_dish", "log_meal"}
             /\ Stored(scanned_dishes', goal_last'.user)
                   > Stored(scanned_dishes, goal_last'.user) )
           => goal_last'.status = HTTP_200_OK ]_vars

\* C16: no increment is lost: once no increment_usage is in flight, the count
\* stored for an ip is the number of increments performed on its record,
\* however the reads and writes of concurrent increments interleaved.
C16_NoLostIncrement ==
    (\A p \in Processes : workers.at[p].pc = "idle") =>
        \A ip \in IPs : StoreCount(redis_store, ip) = workers.performed[ip]

\* C17: store failures are not surfaced.  A check_limit, increment_usage or
\* get_usage call during which the store raises ends as the in-memory
\* operation run once on the in-memory table (same result, same table, the
\* store untouched), and a gate call ends either in the 200 outcome or in the
\* 429 outcome of an exhausted quota, whether the store answers or not.
C17_StoreFailureFallsBack ==
    [][ LET ip == last'.ip
            m  == CheckLimitMemory(usage_tracker, ip, now)
        IN  /\ (last'.op = "check_limit" /\ ~last'.auth /\ redis_client /\ ~redis_up) =>
                  /\ last'.res = m.res
                  /\ usage_tracker' = m.ut
                  /\ redis_store' = redis_store
            /\ (last'.op = "increment_usage" /\ redis_client /\ ~redis_up) =>
                  /\ usage_tracker' = IncrementUsageMemory(usage_tracker, ip)
                  /\ MemCount(usage_tracker', ip) - MemCount(usage_tracker, ip)
                        = (IF ip \in DOMAIN usage_tracker THEN 1 ELSE 0)
                  /\ redis_store' = redis_store
            /\ (last'.op = "get_usage" /\ redis_client /\ ~redis_up) =>
                  /\ last'.res = GetUsageMemory(usage_tracker, ip)
                  /\ usage_tracker' = usage_tracker
                  /\ redis_store' = redis_store
            /\ (last'.op = "check_rate_limit" /\ ~last'.auth) =>
                  /\ last'.status \in {HTTP_200_OK, HTTP_429_TOO_MANY_REQUESTS}
                  /\ last'.status = HTTP_429_TOO_MANY_REQUESTS
                        => Exhausted(ip, last'.backend)
                  /\ (redis_client /\ ~redis_up) =>
                        /\ last'.res = m.res
                        /\ redis_store' = redis_store \/ redis_up'
                  /\ (redis_client /\ ~redis_up /\ ~redis_up' /\ m.res.allowed) =>
                        usage_tracker' = IncrementUsageMemory(m.ut, ip) ]_vars

\* a gate call passes on the in-memory table while the store, which holds a
\* record of the caller, raises
C17_Witness ==
    /\ last.op = "check_rate_limit" /\ ~last.auth
    /\ redis_client /\ ~redis_up
    /\ last.backend = "memory" /\ last.backend2 = "memory"
    /\ last.status = HTTP_200_OK
    /\ RedisKey(last.ip) \in DOMAIN redis_store
    /\ MemCount(usage_tracker, last.ip) = 1

\* the forwarded-for header is present and its first element holds an address
FirstAddress(request) ==
    request.forwarded # <<>> /\ request.forwarded[1].addr # ""
\* the forwarded-for header is present and its first element holds none
Malformed(request) ==
    request.forwarded # <<>> /\ request.forwarded[1].addr = ""

\* C18: get_client_ip resolves every request: to the first address of the
\* forwarded-for header when it holds one, to the peer address when there is
\* no header, to "unknown" when there is neither, and to "unknown", never the
\* empty identity, when the first element of the header is empty.
C18_ClientIpResolved ==
    last.op = "rate_limit_status" =>
        LET r == last.request
        IN  /\ last.ip # ""
            /\ last.ip = IF FirstAddress(r) THEN r.forwarded[1].addr
                         ELSE IF Malformed(r) THEN "unknown"
                         ELSE IF r.client # <<>> THEN r.client[1]
                         ELSE "unknown"

\* C19: in one process, whatever the store does between and during the calls,
\* every anonymous gate call that passes is counted (the counts held for the
\* ip in memory and in the store together rise by one while no record of the
\* ip has expired), and no ip passes the gate more than
\* max_requests_anonymous times at one reading of the clock, which lies in
\* one window of the ip.
C19_PassesWithinQuota ==
    [][ (last'.op = "check_rate_limit" /\ ~last'.auth /\ last'.status = HTTP_200_OK) =>
          /\ ~Expired(last'.ip, now) =>
                MemCount(usage_tracker', last'.ip) + StoreCount(redis_store', last'.ip)
                  = MemCount(usage_tracker, last'.ip) + StoreCount(redis_store, last'.ip) + 1
          /\ passed'[last'.ip] <= max_requests_anonymous ]_vars

\* the record the backend holds for the ip has reached its reset_at
WindowOver(ip, backend) ==
    IF backend = "memory"
    THEN ip \in DOMAIN usage_tracker /\ now >= usage_tracker[ip].reset_at
    ELSE RedisKey(ip) \in DOMAIN redis_store /\ now >= StoreResetAt(redis_store, ip)

\* C20: lazy reset before every access.  A check_limit, increment_usage or
\* get_usage call that finds the record of its ip at or past reset_at treats
\* it as reset: check_limit and get_usage report the full quota, get_usage
\* reports count 0, increment_usage leaves count 1; and a check_limit that
\* directly follows a get_usage of the same ip reports the same remaining.
C20_LazyResetOnEveryAccess ==
    [][ LET ip == last'.ip
            over == WindowOver(ip, last'.backend)
        IN  /\ (last'.op = "get_usage" /\ over) =>
                  /\ last'.res.count = 0
                  /\ last'.res.remaining = max_requests_anonymous
            /\ (last'.op = "check_limit" /\ ~last'.auth /\ over) =>
                  /\ last'.res.allowed
                  /\ last'.res.remaining = max_requests_anonymous
            /\ (last'.op = "increment_usage" /\ over) =>
                  (IF last'.backend = "memory"
                   THEN MemCount(usage_tracker', ip)
                   ELSE StoreCount(redis_store', ip)) = 1
            /\ ( /\ last'.op = "check_limit" /\ ~last'.auth
                 /\ last.op = "get_usage" /\ last.ip = ip
                 /\ last.backend = last'.backend )
               => last'.res.remaining = last.res.remaining ]_vars

\* the achievements of a dispatch list that are of the goal type
OfGoalType(dispatched, g) == { k \in 1..Len(dispatched) : dispatched[k].goal_type = g }
\* the milestone of the band that holds the percentage (tenths of a percent)
BandOf(pct) ==
    IF pct >= 1000 THEN "" ELSE IF pct >= 900 THEN "90%" ELSE IF pct >= 800 THEN "80%" ELSE "none"
\* the cache keys of a goal type
KeysOf(cache, user, g) == { key \in cache : key[1] = user /\ key[2] = g }

\* C21: one check_goals call dispatches at most one achievement per goal
\* type, and it is the one of the band that holds the current percentage
\* (100% from 100, 90% in [90, 100), 80% in [80, 90)), never one of a band
\* that was passed over; below 80 % nothing is dispatched for the goal type
\* and no cache key is added for it, and a call that dispatches nothing
\* leaves the cache and every list as they were.
C21_OneTierPerCall ==
    [][ goal_last'.op = "check_goals" =>
          LET user  == goal_last'.user
              stats == goal_last'.args[1]
              goals == goal_last'.args[2]
              disp  == goal_last'.dispatched
          IN  /\ \A i \in 1..Len(GoalTypes) :
                   LET g      == GoalTypes[i]
                       target == GetOr0(goals, GoalKey(g))
                       pct    == IF target > 0
                                 THEN Percentage(GetOr0(stats, StatKey(g)), target)
                                 ELSE 0
                   IN  /\ Cardinality(OfGoalType(disp, g)) <= 1
                       /\ \A k \in OfGoalType(disp, g) :
                             /\ disp[k].percentage = pct
                             /\ disp[k].milestone = BandOf(pct)
                             /\ disp[k].achieved = (pct >= 1000)
                       /\ BandOf(pct) = "none" =>
                             /\ OfGoalType(disp, g) = {}
                             /\ KeysOf(achievement_cache', user, g)
                                  = KeysOf(achievement_cache, user, g)
              /\ disp = <<>> =>
                   /\ achievement_cache' = achievement_cache
                   /\ notifications' = notifications ]_vars

\* the protein goal is reached in one step: the call dispatches the 100%
\* achievement only, and neither the 80% nor the 90% key is ever set
C21_Witness ==
    /\ goal_last.op = "check_goals" /\ goal_last.user = "u1"
    /\ Len(goal_last.dispatched) = 1
    /\ goal_last.dispatched[1].goal_type = "protein"
    /\ goal_last.dispatched[1].achieved
    /\ KeysOf(achievement_cache, "u1", "protein") = {CacheKey("u1", "protein", 0, "")}

\* the cache key that check_goals consults for a percentage
BandKey(user, g, d, pct) ==
    CacheKey(user, g, d, CASE BandOf(pct) = "" -> ""
                           [] BandOf(pct) = "90%" -> "_90"
                           [] BandOf(pct) = "80%" -> "_80"
                           [] OTHER -> "none")

\* C22: a goal type whose target is 0 or not set is passed over, whatever its
\* total: nothing is dispatched for it and no cache key is added for it; and
\* every goal type is evaluated on its own: whether one with a target is
\* dispatched depends on its own percentage and cache key only, not on the
\* goal types that were passed over in the same call.
C22_GoalWithoutTargetSkipped ==
    [][ goal_last'.op = "check_goals" =>
          LET user  == goal_last'.user
              stats == goal_last'.args[1]
              goals == goal_last'.args[2]
              disp  == goal_last'.dispatched
          IN  \A i \in 1..Len(GoalTypes) :
                 LET g      == GoalTypes[i]
                     target == GetOr0(goals, GoalKey(g))
                 IN  IF target <= 0
                     THEN /\ OfGoalType(disp, g) = {}
                          /\ KeysOf(achievement_cache', user, g)
                               = KeysOf(achievement_cache, user, g)
                     ELSE LET pct == Percentage(GetOr0(stats, StatKey(g)), target)
                          IN  OfGoalType(disp, g) # {}
                                <=> /\ BandOf(pct) # "none"
                                    /\ BandKey(user, g, Today(now), pct)
                                          \notin achievement_cache ]_vars

\* a call passes over calories and carbs, whose targets are 0 while their
\* totals are 2000 kcal and 250 g, and dispatches the 80% tier of protein
C22_Witness ==
    /\ goal_last.op = "check_goals"
    /\ goal_last.args[1] = Stats(20000, 1250, 2500, 0)
    /\ goal_last.args[2] = Goals(0, 150, 0, 70)
    /\ Len(goal_last.dispatched) = 1
    /\ goal_last.dispatched[1].goal_type = "protein"
    /\ KeysOf(achievement_cache, FeedUser, "calories") = {}
    /\ KeysOf(achievement_cache, FeedUser, "carbs") = {}

\* two achievements are of the same goal type, date and tier
SameTier(a, b) ==
    a.goal_type = b.goal_type /\ a.date = b.date /\ a.milestone = b.milestone

\* C23: over any sequence of check_goals calls, notify of an observer is
\* invoked at most once per (user, goal_type, date, tier), also after a
\* dispatch during which an observer raised: while the feed of the user holds
\* the notification that the toast observer created for a tier, no check_goals
\* call invokes notify of the toast observer for that tier again.
C23_NotifiedOncePerTier ==
    [][ goal_last'.op = "check_goals" =>
          LET list == Feed(notifications, goal_last'.user)
          IN  \A i \in 1..Len(goal_last'.dispatched) :
                 "ToastNotificationObserver" \in Named(goal_last'.notified[i])
                    => \A k \in 1..Len(list) :
                          ~SameTier(list[k].achievement, goal_last'.dispatched[i]) ]_vars

\* the calls that are suspended between their cache lookup and cache write
Awaiting == { t \in Tasks : tasks[t].pc = "await" }

C25_UnreadNeverPruned ==
    [][ \A u \in DOMAIN notifications :
          \A n \in Entries(notifications[u]) :
             ~n.read =>
                \/ n \in Entries(Feed(notifications', u))
                \/ /\ goal_last'.op = "mark_as_read"
                   /\ goal_last'.user = u /\ goal_last'.args = <<n.id>>
                   /\ [n EXCEPT !.read = TRUE] \in Entries(Feed(notifications', u))
                \/ goal_last'.op = "clear_notifications" /\ goal_last'.user = u ]_vars

\* get_notifications ran on a list of more than 10 unread notifications of
\* which some are older than 7 days, and the list still holds them all
C25_Witness ==
    /\ goal_last.op = "get_notifications"
    /\ Len(SelectRead(Feed(notifications, FeedUser), FALSE)) > MAX_NOTIFICATIONS
    /\ \E n \in Entries(Feed(notifications, FeedUser)) :
          ~n.read /\ DateTimeFromIso(n.created_at) < now - KEEP_DAYS * Hours(24)

\* C26: clear_notifications(user) leaves the list of the user empty, the
\* lists of the other users and the achievement cache as they were; so no
\* later check_goals call dispatches an achievement whose cache key is
\* present, and a call that dispatches nothing leaves a cleared list empty.
C26_ClearKeepsCache ==
    [][ /\ goal_last'.op = "clear_notifications" =>
              /\ Feed(notifications', goal_last'.user) = <<>>
              /\ \A u \in DOMAIN notifications \cup DOMAIN notifications' :
                    u # goal_last'.user =>
                       Feed(notifications', u) = Feed(notifications, u)
              /\ achievement_cache' = achievement_cache
        /\ goal_last'.op = "check_goals" =>
              /\ \A i \in 1..Len(goal_last'.dispatched) :
                    LET a == goal_last'.dispatched[i]
                    IN  BandKey(goal_last'.user, a.goal_type, a.date, a.percentage)
                           \notin achievement_cache
              /\ goal_last'.dispatched = <<>> =>
                    Feed(notifications', goal_last'.user)
                       = Feed(notifications, goal_last'.user) ]_vars

\* the 80% tier of protein was notified, the list was cleared, and a later
\* check_goals with the total in that band dispatched nothing: the list of
\* the user is empty while the other user has notifications
C26_Witness ==
    /\ goal_last.op = "check_goals" /\ goal_last.user = "u1"
    /\ goal_last.args[1] = Stats(0, 1250, 0, 0)
    /\ goal_last.dispatched = <<>>
    /\ CacheKey("u1", "protein", 0, "_80") \in achievement_cache
    /\ "u1" \in DOMAIN notifications /\ notifications["u1"] = <<>>
    /\ Len(Feed(notifications, "u2")) = Len(GoalTypes)

\* C27: a stalled store cannot hang a call: every check_limit call whose
\* store operation is in flight eventually returns.
C27_StalledStoreCallReturns ==
    \A p \in Processes :
        (workers.at[p].pc \in {"connect", "operation"}) ~> (workers.at[p].pc = "idle")

\* the record that the store holds for an ip
StoreRecord(rs, ip) == JsonLoads(rs[RedisKey(ip)].data)

\* C28: the window is fixed.  An increment changes count only: in memory it
\* leaves reset_at and first_request as they were; in the store it leaves the
\* stored reset_at as it was and never moves the expiry of the key to a later
\* time, so the key of a window expires no later than 24 hours after the
\* window began.
C28_IncrementKeepsWindowEnd ==
    [][ \A ip \in IPs :
          /\ ( /\ RedisKey(ip) \in DOMAIN redis_store
               /\ RedisKey(ip) \in DOMAIN redis_store'
               /\ StoreRecord(redis_store', ip).first_request
                    = StoreRecord(redis_store, ip).first_request )
             => /\ StoreRecord(redis_store', ip).reset_at
                     = StoreRecord(redis_store, ip).reset_at
                /\ redis_store'[RedisKey(ip)].expire_at
                     <= redis_store[RedisKey(ip)].expire_at
          /\ RedisKey(ip) \in DOMAIN redis_store' =>
                redis_store'[RedisKey(ip)].expire_at
                  <= FromIsoFormat(StoreRecord(redis_store', ip).first_request)
                       + Hours(WINDOW_HOURS)
          /\ (last'.op = "increment_usage" /\ last'.ip = ip /\ ip \in DOMAIN usage_tracker)
             => /\ usage_tracker'[ip].reset_at = usage_tracker[ip].reset_at
                /\ usage_tracker'[ip].first_request = usage_tracker[ip].first_request ]_vars

\* C29: with counts changed through the gate only, the count of every ip
\* stays within 0..max_requests_anonymous, in memory and in the store, also
\* while requests of one ip are in flight in several processes.
C29_CountWithinQuota ==
    \A ip \in IPs :
        /\ 0 <= MemCount(usage_tracker, ip)
        /\ MemCount(usage_tracker, ip) <= max_requests_anonymous
        /\ 0 <= StoreCount(redis_store, ip)
        /\ StoreCount(redis_store, ip) <= max_requests_anonymous

\* C30: tiers do not regress.  Once the 100% achievement of a (user, goal
\* type, date) has been dispatched (its cache key is set), no later
\* check_goals call dispatches the 80% or the 90% achievement of that key,
\* whatever the total has become.
C30_TiersNeverRegress ==
    [][ goal_last'.op = "check_goals" =>
          \A k \in 1..Len(goal_last'.dispatched) :
              LET a == goal_last'.dispatched[k]
              IN  CacheKey(goal_last'.user, a.goal_type, a.date, "") \in achievement_cache
                     => a.milestone \notin {"80%", "90%"} ]_vars

============================================================================
